---- MODULE Spec2Model ----
(***************************************************************************)
(* Model of the Gamma MCP server's generate-presentation flow:             *)
(* generatePresentation = startGeneration (POST) -> pollGeneration (GET    *)
(* loop with deadline and sleep) -> optional download (mkdir, GET, write). *)
(* Every await of the source is a state of pc; the remote API, the clock   *)
(* and the filesystem are the environment.                                 *)
(***************************************************************************)
EXTENDS Integers, Sequences, FiniteSets, TLC

\* ---------------------------------------------------------------- bounds
\* largest poll interval and timeout tried, in clock ticks
MaxInterval == 2
MaxTimeout == 3
\* the clock saturates one tick after the largest deadline
MaxTime == MaxTimeout + 1

\* ---------------------------------------------------------- JS values
Undefined == "<undefined>"
Null == "<null>"
\* the value of a result's error field when it is null
NullErr == <<Null>>
\* the value of a result's filePath field when it is null
NullPath == <<Null>>

\* JavaScript truthiness of a string-or-undefined value
Truthy(v) == v \notin {Undefined, Null, ""}

\* a || b on such values
OrElse(a, b) == IF Truthy(a) THEN a ELSE b

\* variant: the status is compared as received
ToLowerCase_AsIs(s) == s

\* String.prototype.toLowerCase on the strings the program lowercases: status
\* strings the remote answers, header names, text amounts
ToLowerCase(s) ==
  CASE s = "Succeeded" -> "succeeded"
    [] s = "SUCCESS" -> "success"
    [] s = "ERROR" -> "error"
    [] s = "Authorization" -> "authorization"
    [] s = "X-API-KEY" -> "x-api-key"
    [] s = "Content-Type" -> "content-type"
    [] s = "Accept" -> "accept"
    [] s = "SHORT" -> "short"
    [] s = "Long" -> "long"
    [] s = "Brief" -> "brief"
    [] s = "EXTENSIVE" -> "extensive"
    [] s = "Huge" -> "huge"
    [] OTHER -> s

\* values of any JavaScript type, tagged with their type
Undef == [t |-> "undefined"]
NullV == [t |-> "null"]
NaN == [t |-> "NaN"]
Str(s) == [t |-> "string", s |-> s]
Num(n) == [t |-> "number", n |-> n]
\* an array and its items
Arr(items) == [t |-> "array", items |-> items]
\* an object and its own enumerable properties, in insertion order
Obj(members) == [t |-> "object", members |-> members]

\* ----------------------------------------------------- the environment
\* values of params.exportAs the schema admits (absent, pdf, pptx)
ExportValues == {Undefined, "pdf", "pptx"}

\* HTTP status codes the remote answers; Response.ok is 200..299
HttpCodes == {200, 201, 404, 500}
Ok(code) == code >= 200 /\ code <= 299
BodyTexts == {"", "quota exceeded"}

\* an exception thrown by fetch, res.json(), mkdir, new URL, writeFile
Errors ==
  { [name |-> "FetchError", message |-> <<"request failed">>],
    [name |-> "Error", message |-> <<>>] }
SyntaxErr == [name |-> "SyntaxError", message |-> <<"Unexpected token">>]
InvalidUrlErr == [name |-> "TypeError", message |-> <<"Invalid URL">>]

\* generationId values a creation response carries
IdValues == {Undefined, "", "g1"}

\* answers to the creation POST
InitResponses ==
  [kind : {"threw"}, err : Errors]
  \cup [kind : {"http"}, code : {c \in HttpCodes : ~Ok(c)}, text : BodyTexts]
  \cup [kind : {"malformed"}, code : {200}]
  \cup [kind : {"json"}, code : {c \in HttpCodes : Ok(c)}, generationId : IdValues]

\* status strings of a status response
StatusValues ==
  { Undefined, "", "pending", "completed", "Succeeded", "SUCCESS", "failed",
    "ERROR" }

\* elements of a files list: a bare string, or an object with an optional url
FileElems ==
  { [typ |-> "string", val |-> "not a url"],
    [typ |-> "object", val |-> "https://cdn/f"],
    [typ |-> "object", val |-> Undefined] }
FilesValues == {<<>>} \cup {<<e>> : e \in FileElems}
NoFiles == <<[typ |-> "none", val |-> Undefined]>>

\* the JSON bodies of a 2xx status response
StatusBodies ==
  [ status : StatusValues,
    gammaUrl : {Undefined, "", "https://gamma.app/docs/G"},
    url : {Undefined, "https://gamma.app/U"},
    shareUrl : {Undefined, "https://gamma.app/S"},
    pdfUrl : {Undefined, "https://cdn/p.pdf"},
    pptxUrl : {Undefined, "https://cdn/x.pptx"},
    files : {NoFiles} \cup FilesValues,
    resultFiles : {NoFiles, <<[typ |-> "string", val |-> "https://cdn/r"]>>} ]

\* answers to a status GET
StatusResponses ==
  [kind : {"threw"}, err : Errors]
  \cup [kind : {"http"}, code : {c \in HttpCodes : ~Ok(c)}, text : BodyTexts]
  \cup [kind : {"malformed"}, code : {200}]
  \cup [kind : {"json"}, code : {200}, data : StatusBodies]

\* answers to the download GET
DownloadResponses ==
  [kind : {"threw"}, err : Errors]
  \cup [kind : {"http"}, code : {c \in HttpCodes : ~Ok(c)}]
  \cup [kind : {"body"}, code : {200}, readOk : BOOLEAN]

\* --------------------------------------------------- the tool's parameters
\* the optional string parameters of the schema (numCards is apart: number or string)
OptionalParams ==
  { "textMode", "format", "themeName", "cardSplit", "additionalInstructions",
    "exportAs", "textAmount", "tone", "audience", "language", "imageSource",
    "imageModel", "imageStyle", "cardDimensions", "workspaceAccess",
    "externalAccess" }

\* the values tried for an optional parameter that is given
ParamValues(f) ==
  CASE f = "exportAs" -> {"pdf", "pptx"}
    [] f = "textAmount" -> {"brief", "medium", "detailed", "extensive", "short", "long"}
    [] f = "textMode" -> {"generate"}
    [] f = "format" -> {"presentation"}
    [] f = "cardSplit" -> {"auto"}
    [] f = "imageSource" -> {"aiGenerated"}
    [] f = "cardDimensions" -> {"16x9"}
    [] f = "workspaceAccess" -> {"view"}
    [] f = "externalAccess" -> {"noAccess"}
    [] OTHER -> {"some text"}

\* numCards: a number, or a string that is a number, is empty, or is no number
NumCardsValues == {Num(5), Str("7"), Str(""), Str("abc")}

\* the parameter object in which the parameters of given have these values
ParamsOf(given, numCards) ==
  [f \in OptionalParams \cup {"inputText", "numCards"} |->
     IF f = "inputText" THEN "a topic"
     ELSE IF f = "numCards" THEN numCards
     ELSE IF f \in DOMAIN given THEN given[f] ELSE Undefined]

\* an invocation that sets exportAs alone
ExportParams(exportAs) ==
  ParamsOf([f \in {g \in {"exportAs"} : exportAs # Undefined} |-> exportAs], Undef)

\* --------------------------------------------------------------- state
VARIABLES
  pc,            \* where generatePresentation is suspended
  params,        \* the tool parameters of this invocation
  intervalMs,    \* pollGeneration's options.intervalMs
  timeoutMs,     \* pollGeneration's options.timeoutMs
  now,           \* Date.now(), in ticks, saturating at MaxTime
  deadline,      \* pollGeneration's deadline
  sleepLeft,     \* ticks left of the pending setTimeout
  generationId,  \* the id startGeneration returned
  gammaUrl,      \* pollGeneration's result
  fileUrl,       \* pollGeneration's result
  targetPath,    \* the download's target path
  savedFilePath, \* the path written
  result,        \* what generatePresentation returned
  escaped,       \* an exception left generatePresentation
  pollOutcome,   \* how pollGeneration finished
  raisedAt,      \* the step whose exception ended the operation
  initCalls,     \* creation POSTs issued
  statusCalls,   \* status GETs issued
  mkdirCalls,    \* mkdir calls issued
  downloadCalls, \* download GETs issued
  writeCalls,    \* writeFile calls issued
  nonTerm,       \* 2xx status answers whose status is not terminal
  lastKind,      \* class of the latest status answer
  lastLate,      \* the latest status answer arrived at or after the deadline
  lastHttp,      \* code and body text of the latest non-2xx answer
  initKind,      \* class of the answer to the creation POST
  termView,      \* view URL of the terminal success answer
  toolResponse,  \* what the generate-presentation tool handler returned
  body,          \* the JSON body of the creation POST
  dlKind,        \* how the download step ended
  disk,          \* the paths writeFile has written
  cli,           \* the startup configuration and the headers it yields
  pure,          \* inputs and outputs of the helper functions
  target,        \* the generation id in the URL of the latest status GET
  self,          \* the invocation that is running
  parked         \* the state of the invocation suspended meanwhile, if any

vars ==
  << pc, params, intervalMs, timeoutMs, now, deadline, sleepLeft, generationId,
     gammaUrl, fileUrl, targetPath, savedFilePath, result, escaped, pollOutcome,
     raisedAt, initCalls, statusCalls, mkdirCalls, downloadCalls, writeCalls,
     nonTerm, lastKind, lastLate, lastHttp, initKind, termView, toolResponse,
     body, dlKind, disk, cli, pure, target, self, parked >>

progVars ==
  << params, intervalMs, timeoutMs, generationId, gammaUrl, fileUrl, targetPath,
     savedFilePath >>
callVars == << initCalls, statusCalls, mkdirCalls, downloadCalls, writeCalls >>
ghostVars == << nonTerm, lastKind, lastLate, lastHttp, initKind, termView >>
pollGhosts == << nonTerm, lastKind, lastLate, termView >>
dlVars == << dlKind, disk >>
sideVars == << cli, pure, self, parked >>

NoResult == [url |-> Undefined, filePath |-> <<Undefined>>, error |-> <<Undefined>>]
NoPath == <<Undefined>>
\* the handler has not returned
NoResponse == [content |-> <<>>]
\* no creation POST has been issued
NoBody == <<"<no body>">>
\* the configuration and helper-function parts are not exercised by this flow
CliIdle == [phase |-> "idle"]
PureIdle == [phase |-> "idle"]
\* no other invocation is in progress
Nobody == [pc |-> "<nobody>"]
\* one invocation runs by itself
Alone == self = 1 /\ parked = Nobody

\* nothing has run: the values generatePresentation starts from
Quiet ==
  /\ now = 0
  /\ deadline = 0
  /\ sleepLeft = 0
  /\ generationId = Undefined
  /\ gammaUrl = Undefined
  /\ fileUrl = Undefined
  /\ targetPath = NoPath
  /\ savedFilePath = NullPath
  /\ result = NoResult
  /\ escaped = FALSE
  /\ pollOutcome = "none"
  /\ raisedAt = "none"
  /\ initCalls = 0 /\ statusCalls = 0 /\ mkdirCalls = 0
  /\ downloadCalls = 0 /\ writeCalls = 0
  /\ nonTerm = 0
  /\ lastKind = "none"
  /\ lastLate = FALSE
  /\ lastHttp = <<0, "">>
  /\ initKind = "none"
  /\ termView = Undefined
  /\ toolResponse = NoResponse
  /\ body = NoBody
  /\ dlKind = "none"
  /\ disk = {}
  /\ target = Undefined

Init ==
  /\ pc = "start"
  /\ params \in {ExportParams(e) : e \in ExportValues}
  /\ intervalMs \in 1..MaxInterval
  /\ timeoutMs \in 0..MaxTimeout
  /\ Quiet
  /\ Alone
  /\ cli = CliIdle
  /\ pure = PureIdle


\* ------------------------------------------------------- error values
\* new Error(`Gamma v0.2 init failed: ${response.status} ${errorText}`)
InitFailedError(code, text) ==
  [name |-> "Error", message |-> <<"Gamma v0.2 init failed:", ToString(code), text>>]
MissingIdError ==
  [name |-> "Error", message |-> <<"Gamma v0.2 init response missing generation id">>]
\* variant: the poll error drops the body text
PollFailedError_NoText(code, text) ==
  [name |-> "Error", message |-> <<"Gamma v0.2 poll failed:", ToString(code)>>]

\* new Error(`Gamma v0.2 poll failed: ${res.status} ${errorText}`)
PollFailedError(code, text) ==
  [name |-> "Error", message |-> <<"Gamma v0.2 poll failed:", ToString(code), text>>]
GenerationFailedError ==
  [name |-> "Error", message |-> <<"Gamma v0.2 generation failed">>]
TimedOutError ==
  [name |-> "Error",
   message |-> <<"Gamma v0.2 generation timed out while waiting for result">>]

\* variant: the catch returns error.message alone
ErrText_NoFallback(e) == e.message

\* error.message || String(error), in the catch of generatePresentation
ErrText(e) == IF e.message # <<>> THEN e.message ELSE <<e.name>>

\* variant: the catch keeps the view link poll resolved
CatchResult_KeepsUrl(e) ==
  [url |-> OrElse(gammaUrl, Null), filePath |-> NullPath, error |-> ErrText(e)]

\* the catch block's return value
CatchResult(e) == [url |-> Null, filePath |-> NullPath, error |-> ErrText(e)]

\* variant: the try block ends before the download step
TryCovers_NoDownload(site) == site \in {"submit", "poll"}

\* the steps the try block of generatePresentation encloses
TryCovers(site) == site \in {"submit", "poll", "download"}

\* variant: the written path is not reported
ReturnResult_DropsPath(g, p) ==
  [url |-> OrElse(g, Null), filePath |-> NullPath, error |-> NullErr]

\* the normal return value of generatePresentation
ReturnResult(g, p) == [url |-> OrElse(g, Null), filePath |-> p, error |-> NullErr]

\* ------------------------------------- the generate-presentation handler
\* variant: a result that carries a file path is reported as a success
HandlerText_PathFirst(r) ==
  IF r.filePath \notin {NullPath, <<>>}
    THEN <<"Presentation generated! View it here:", r.url,
           "Saved exported file to:">> \o r.filePath
    ELSE IF ~Truthy(r.url)
      THEN <<"Failed to generate presentation using Gamma API. Error:">>
             \o (IF r.error \notin {NullErr, <<>>} THEN r.error
                 ELSE <<"Unknown error.">>)
      ELSE <<"Presentation generated! View it here:", r.url>>

\* the text of the handler's single content item
HandlerText(r) ==
  IF ~Truthy(r.url)
    THEN <<"Failed to generate presentation using Gamma API. Error:">>
           \o (IF r.error \notin {NullErr, <<>>} THEN r.error
               ELSE <<"Unknown error.">>)
    ELSE IF r.filePath \notin {NullPath, <<>>}
      THEN <<"Presentation generated! View it here:", r.url,
             "Saved exported file to:">> \o r.filePath
      ELSE <<"Presentation generated! View it here:", r.url>>

\* what the handler returns for the result r of generatePresentation
HandlerResponse(r) == [content |-> <<[type |-> "text", text |-> HandlerText(r)]>>]

\* variant: the catch starts the operation again
AfterCatch_Retry == "start"

\* where generatePresentation continues after its catch: it returns
AfterCatch == "done"

\* an exception e raised at a step of generatePresentation
Raise(site, e) ==
  /\ pc' = IF TryCovers(site) THEN AfterCatch ELSE "done"
  /\ raisedAt' = site
  /\ IF TryCovers(site)
       THEN /\ result' = CatchResult(e)
            /\ escaped' = FALSE
            /\ toolResponse' = HandlerResponse(CatchResult(e))
       ELSE /\ result' = NoResult
            /\ escaped' = TRUE
            /\ toolResponse' = NoResponse

\* generatePresentation returns normally
Return(g, p) ==
  /\ pc' = "done"
  /\ result' = ReturnResult(g, p)
  /\ toolResponse' = HandlerResponse(ReturnResult(g, p))
  /\ UNCHANGED << raisedAt, escaped >>

\* ---------------------------------------------------- startGeneration
\* variant: only a missing id is rejected, an empty one is accepted
HasId_AcceptsEmpty(id) == id # Undefined

\* if (!id) throw ...: the creation response carries a usable id
HasId(id) == Truthy(id)

\* ----------------------------------------------------- pollGeneration
\* variant: only "completed" is a terminal success
IsSuccess_CompletedOnly(status) == status = "completed"

\* status === "completed" || status === "succeeded" || status === "success"
IsSuccess(status) == status \in {"completed", "succeeded", "success"}
\* variant: only "failed" is a terminal failure
IsFailure_FailedOnly(status) == status = "failed"

IsFailure(status) == status \in {"failed", "error"}

\* variant: a missing status counts as completed
StatusOf_MissingCompleted(data) == ToLowerCase(OrElse(data.status, "completed"))

\* (data.status || "").toLowerCase()
StatusOf(data) == ToLowerCase(OrElse(data.status, ""))

\* variant: url is preferred to gammaUrl
ViewUrl_UrlFirst(data) == OrElse(OrElse(data.url, data.gammaUrl), data.shareUrl)

\* data.gammaUrl || data.url || data.shareUrl
ViewUrl(data) == OrElse(OrElse(data.gammaUrl, data.url), data.shareUrl)

\* files && files.length > 0, then the first element's url
FirstUrl(files) ==
  IF files = NoFiles \/ Len(files) = 0 THEN Undefined ELSE files[1].val

\* the fileUrl pollGeneration resolves on terminal success
FileUrl(data) ==
  LET f1 == IF Truthy(data.pdfUrl) THEN data.pdfUrl ELSE Undefined
      f2 == IF Truthy(data.pptxUrl) THEN data.pptxUrl ELSE f1
      f3 == IF ~Truthy(f2) /\ Truthy(FirstUrl(data.files))
              THEN FirstUrl(data.files) ELSE f2
      f4 == IF ~Truthy(f3) /\ Truthy(FirstUrl(data.resultFiles))
              THEN FirstUrl(data.resultFiles) ELSE f3
  IN  f4

\* variant: a typed URL is taken even when an export URL is present
FileUrlWithExport_TypedFirst(data) ==
  LET f0 == IF Truthy(data.pptxUrl) THEN data.pptxUrl ELSE Undefined
      f1 == IF ~Truthy(f0) /\ Truthy(data.pdfUrl) THEN data.pdfUrl ELSE f0
      f2 == IF ~Truthy(f1) /\ Truthy(data.exportUrl) THEN data.exportUrl ELSE f1
      f3 == IF ~Truthy(f2) /\ Truthy(FirstUrl(data.files))
              THEN FirstUrl(data.files) ELSE f2
      f4 == IF ~Truthy(f3) /\ Truthy(FirstUrl(data.resultFiles))
              THEN FirstUrl(data.resultFiles) ELSE f3
  IN  f4

\* the fileUrl the revision of pollGeneration that reads data.exportUrl resolves
FileUrlWithExport(data) ==
  LET f0 == IF Truthy(data.exportUrl) THEN data.exportUrl ELSE Undefined
      f1 == IF ~Truthy(f0) /\ Truthy(data.pptxUrl) THEN data.pptxUrl ELSE f0
      f2 == IF ~Truthy(f1) /\ Truthy(data.pdfUrl) THEN data.pdfUrl ELSE f1
      f3 == IF ~Truthy(f2) /\ Truthy(FirstUrl(data.files))
              THEN FirstUrl(data.files) ELSE f2
      f4 == IF ~Truthy(f3) /\ Truthy(FirstUrl(data.resultFiles))
              THEN FirstUrl(data.resultFiles) ELSE f3
  IN  f4

\* variant: the status request is not awaited, the loop goes on at once
AfterStatusRequest_NotAwaited == "pollHead"

\* where pollGeneration continues after issuing a status GET: it awaits the answer
AfterStatusRequest == "awaitStatus"

\* variant: the sleep resolves at once
SleepTicks_None(interval) == 0

\* setTimeout(r, intervalMs): ticks before the sleep resolves
SleepTicks(interval) == interval

\* variant: the comparison is inverted
BeforeDeadline_Inverted(t, d) == d < t

\* while (Date.now() < deadline)
BeforeDeadline(t, d) == t < d

\* ----------------------------------------------------------- download
\* new URL(fileUrl) succeeds
UrlParses(u) == u # "not a url"

\* path.extname(urlObj.pathname)
ExtName(u) ==
  CASE u = "https://cdn/p.pdf" -> ".pdf"
    [] u = "https://cdn/x.pptx" -> ".pptx"
    [] OTHER -> ""

\* path.extname(urlObj.pathname) || `.${String(params.exportAs)}`
ExtFromPath(u, exportAs) ==
  IF ExtName(u) # "" THEN ExtName(u)
  ELSE IF exportAs = "pdf" THEN ".pdf" ELSE ".pptx"

\* path.join(outDir, `gamma-generation-${generationId}${extFromPath}`)
TargetPath(id, u, exportAs) ==
  <<"output", "gamma-generation-", id, ExtFromPath(u, exportAs)>>

\* console.error(`Failed to download file ${fileUrl}: ${fileRes.status}`)
DownloadFailedError(code) ==
  [name |-> "Error", message |-> <<"Failed to download file", ToString(code)>>]

\* variant: a non-2xx download answer throws, as in submit and poll
NonOkDownloadThrows_Yes == TRUE

\* if (!fileRes.ok) only logs: a non-2xx download answer does not throw
NonOkDownloadThrows == FALSE

\* variant: the export request is not looked at (an earlier revision)
WantsDownload_FileOnly(f, exportAs) == Truthy(f)

\* if (fileUrl && params.exportAs)
WantsDownload(f, exportAs) == Truthy(f) /\ Truthy(exportAs)

\* ------------------------------------------- parseCliArgs and buildHeaders
\* a header object: name/value pairs in insertion order, names unique
HeaderNames(h) == {h[i][1] : i \in DOMAIN h}

\* h[name], undefined when the object has no such property
Get(h, name) ==
  IF name \in HeaderNames(h)
    THEN h[CHOOSE i \in DOMAIN h : h[i][1] = name][2]
    ELSE Undefined

\* h[name] = value
Put(h, name, value) ==
  IF name \in HeaderNames(h)
    THEN [i \in DOMAIN h |-> IF h[i][1] = name THEN <<name, value>> ELSE h[i]]
    ELSE Append(h, <<name, value>>)

\* Object.fromEntries(entries): a later entry of the same name wins
RECURSIVE FromEntries(_)
FromEntries(entries) ==
  IF entries = <<>> THEN <<>>
  ELSE LET n == Len(entries)
       IN  Put(FromEntries(SubSeq(entries, 1, n - 1)), entries[n][1], entries[n][2])

\* Object.entries(headers).map(([k, v]) => [k.toLowerCase(), v])
LowerEntries(h) == [i \in DOMAIN h |-> <<ToLowerCase(h[i][1]), h[i][2]>>]

\* addHeader(raw), raw already cut at its separator into a trimmed name and value
AddHeader(h, arg) == IF arg.name # "" THEN Put(h, arg.name, arg.value) ELSE h

\* the for loop of parseCliArgs from argument i on
RECURSIVE ParseLoop(_, _, _, _)
ParseLoop(argv, i, apiKey, headers) ==
  IF i > Len(argv) THEN [apiKey |-> apiKey, headers |-> headers]
  ELSE IF argv[i].flag = "--api-key"
    THEN ParseLoop(argv, i + 1, argv[i].value, headers)
    ELSE ParseLoop(argv, i + 1, apiKey, AddHeader(headers, argv[i]))

\* parseCliArgs(argv): the loop, then the mirroring of Authorization
ParseCliArgs(argv) ==
  LET parsed == ParseLoop(argv, 1, Undefined, <<>>)
      lower == FromEntries(LowerEntries(parsed.headers))
  IN  IF ~Truthy(Get(lower, "x-api-key")) /\ Truthy(Get(lower, "authorization"))
        THEN [apiKey |-> parsed.apiKey,
              headers |-> Put(parsed.headers, "X-API-KEY",
                              Get(parsed.headers, "Authorization"))]
        ELSE parsed

\* the default content headers of buildHeaders
DefaultHeaders ==
  << <<"Content-Type", "application/json">>, <<"Accept", "application/json">> >>

\* for (const [k, v] of Object.entries(CLI.headers)) headers[k] = v
RECURSIVE ApplyOverrides(_, _)
ApplyOverrides(h, overrides) ==
  IF overrides = <<>> THEN h
  ELSE ApplyOverrides(Put(h, overrides[1][1], overrides[1][2]), Tail(overrides))

\* buildHeaders() with CLI = c and process.env.GAMMA_API_KEY = env
BuildHeaders(c, env) ==
  LET headers == ApplyOverrides(DefaultHeaders, c.headers)
      cliApiKey == OrElse(OrElse(c.apiKey, env), "")
      hasApiKeyHeader == \E k \in HeaderNames(headers) : ToLowerCase(k) = "x-api-key"
  IN  IF ~hasApiKeyHeader /\ Truthy(cliApiKey)
        THEN Put(headers, "X-API-KEY", cliApiKey)
        ELSE headers

\* ---------------------------------------------------- removeUndefinedDeep
\* variant: an object left without keys is kept
IsEmptyObject_Never(cleaned) == FALSE

\* typeof cleaned === "object" && cleaned !== null && Object.keys(cleaned).length === 0
IsEmptyObject(cleaned) ==
  \/ cleaned.t = "object" /\ cleaned.members = <<>>
  \/ cleaned.t = "array" /\ cleaned.items = <<>>

IsDefined(v) == v.t # "undefined"

\* the member survives the loop of removeUndefinedDeep
Kept(member) == IsDefined(member[2]) /\ ~IsEmptyObject(member[2])

RECURSIVE RemoveUndefinedDeep(_)
RemoveUndefinedDeep(value) ==
  IF value.t = "array"
    THEN Arr(SelectSeq([i \in DOMAIN value.items |->
                          RemoveUndefinedDeep(value.items[i])], IsDefined))
  ELSE IF value.t = "object"
    THEN Obj(SelectSeq([i \in DOMAIN value.members |->
                          <<value.members[i][1],
                            RemoveUndefinedDeep(value.members[i][2])>>], Kept))
  ELSE value

\* JSON.stringify, as the document it writes: NaN and undefined array items
\* become null, undefined members are left out
StringifyItem(v) == IF v.t \in {"undefined", "NaN"} THEN NullV ELSE v
MemberDefined(member) == IsDefined(member[2])

RECURSIVE Stringify(_)
Stringify(value) ==
  IF value.t = "array"
    THEN Arr([i \in DOMAIN value.items |->
                StringifyItem(Stringify(value.items[i]))])
  ELSE IF value.t = "object"
    THEN LET written == SelectSeq(value.members, MemberDefined)
         IN  Obj([i \in DOMAIN written |->
                    <<written[i][1], StringifyItem(Stringify(written[i][2]))>>])
  ELSE value

\* ------------------------------------------------ the payload of a request
\* the target vocabulary of textOptions.amount
AmountVocabulary == {"brief", "medium", "detailed", "extensive"}

\* variant: the legacy values are not mapped
LegacyAmount_None(v) == Undefined

\* the legacy values of mapAmount
LegacyAmount(v) ==
  CASE v = "short" -> "brief"
    [] v = "long" -> "detailed"
    [] OTHER -> Undefined

\* mapAmount(val)
MapAmount(val) ==
  IF ~Truthy(val) THEN Undefined
  ELSE LET v == ToLowerCase(val)
       IN  IF v \in AmountVocabulary THEN v ELSE LegacyAmount(v)

\* variant: a parameter that is not given is read as null
JsOf_Null(x) == IF x = Undefined THEN NullV ELSE Str(x)

\* params.<name>: the string given, undefined when the parameter is not given
JsOf(x) == IF x = Undefined THEN Undef ELSE Str(x)

\* Number(s) on the strings tried for numCards
NumberOf(s) ==
  CASE s = "7" -> Num(7)
    [] s = "" -> Num(0)
    [] OTHER -> NaN

\* typeof params.numCards === "string" ? Number(params.numCards) : params.numCards
NumCardsOf(n) == IF n.t = "string" THEN NumberOf(n.s) ELSE n

\* the payload generatePresentation builds from params
BuildPayload(p) ==
  RemoveUndefinedDeep(Obj(<<
    <<"inputText", JsOf(p.inputText)>>,
    <<"textMode", JsOf(p.textMode)>>,
    <<"format", JsOf(p.format)>>,
    <<"themeName", JsOf(p.themeName)>>,
    <<"numCards", NumCardsOf(p.numCards)>>,
    <<"cardSplit", JsOf(p.cardSplit)>>,
    <<"additionalInstructions", JsOf(p.additionalInstructions)>>,
    <<"exportAs", JsOf(p.exportAs)>>,
    <<"textOptions", RemoveUndefinedDeep(Obj(<<
        <<"amount", JsOf(MapAmount(p.textAmount))>>,
        <<"tone", JsOf(p.tone)>>,
        <<"audience", JsOf(p.audience)>>,
        <<"language", JsOf(p.language)>> >>))>>,
    <<"imageOptions", RemoveUndefinedDeep(Obj(<<
        <<"source", JsOf(p.imageSource)>>,
        <<"model", JsOf(p.imageModel)>>,
        <<"style", JsOf(p.imageStyle)>> >>))>>,
    <<"cardOptions", RemoveUndefinedDeep(Obj(<<
        <<"dimensions", JsOf(p.cardDimensions)>> >>))>>,
    <<"sharingOptions", RemoveUndefinedDeep(Obj(<<
        <<"workspaceAccess", JsOf(p.workspaceAccess)>>,
        <<"externalAccess", JsOf(p.externalAccess)>> >>))>> >>))

\* body: JSON.stringify(removeUndefinedDeep(payload)), in startGeneration
RequestBody(p) == Stringify(RemoveUndefinedDeep(BuildPayload(p)))

\* ------------------------------------- classes of answers, for the claims
\* the status values that spell completed, succeeded or success in any case
SuccessSet == {"completed", "Succeeded", "SUCCESS"}
\* the status values that spell failed or error in any case
FailureSet == {"failed", "ERROR"}
KindOf(resp) ==
  IF resp.kind = "json"
    THEN IF resp.data.status \in SuccessSet THEN "success"
         ELSE IF resp.data.status \in FailureSet THEN "failure"
         ELSE "nonterminal"
    ELSE resp.kind

InitKindOf(resp) ==
  IF resp.kind = "json"
    THEN IF resp.generationId \in {Undefined, ""} THEN "noId" ELSE "ok"
    ELSE resp.kind

\* ------------------------------------------------------------- actions
\* generatePresentation is called: startGeneration issues the creation POST
Start ==
  /\ UNCHANGED << dlVars, sideVars, target >>
  /\ pc = "start"
  /\ body' = RequestBody(params)
  /\ pc' = "awaitInit"
  /\ initCalls' = initCalls + 1
  /\ UNCHANGED << progVars, now, deadline, sleepLeft, result, toolResponse, escaped,
                  pollOutcome, raisedAt, statusCalls, mkdirCalls, downloadCalls, writeCalls,
                  ghostVars >>

\* the creation POST settles; on an id pollGeneration starts and sets its deadline
InitRespond(resp) ==
  /\ UNCHANGED << body, dlVars, sideVars, target >>
  /\ pc = "awaitInit"
  /\ UNCHANGED << params, intervalMs, timeoutMs, gammaUrl, fileUrl, targetPath,
                  savedFilePath, now, sleepLeft, pollOutcome, callVars, pollGhosts >>
  /\ initKind' = InitKindOf(resp)
  /\ lastHttp' = IF resp.kind = "http" THEN <<resp.code, resp.text>> ELSE lastHttp
  /\ CASE resp.kind = "threw" ->
            Raise("submit", resp.err) /\ UNCHANGED << generationId, deadline >>
       [] resp.kind = "http" ->
            /\ Raise("submit", InitFailedError(resp.code, resp.text))
            /\ UNCHANGED << generationId, deadline >>
       [] resp.kind = "malformed" ->
            Raise("submit", SyntaxErr) /\ UNCHANGED << generationId, deadline >>
       [] resp.kind = "json" /\ ~HasId(resp.generationId) ->
            Raise("submit", MissingIdError) /\ UNCHANGED << generationId, deadline >>
       [] resp.kind = "json" /\ HasId(resp.generationId) ->
            /\ generationId' = resp.generationId
            /\ deadline' = now + timeoutMs
            /\ pc' = "pollHead"
            /\ UNCHANGED << result, toolResponse, escaped, raisedAt >>

\* the loop head of pollGeneration: issue a status GET, or time out
PollHead ==
  /\ UNCHANGED << body, dlVars, sideVars >>
  /\ pc = "pollHead"
  /\ UNCHANGED << progVars, now, deadline, sleepLeft, initCalls, mkdirCalls,
                  downloadCalls, writeCalls, ghostVars >>
  /\ IF BeforeDeadline(now, deadline)
       THEN /\ statusCalls' = statusCalls + 1
            /\ target' = generationId
            /\ pc' = AfterStatusRequest
            /\ UNCHANGED << result, toolResponse, escaped, raisedAt, pollOutcome >>
       ELSE /\ pollOutcome' = "timedOut"
            /\ Raise("poll", TimedOutError)
            /\ UNCHANGED << statusCalls, target >>

\* a status GET settles
StatusRespond(resp) ==
  /\ UNCHANGED << body, dlVars, sideVars, target >>
  /\ pc = "awaitStatus"
  /\ lastKind' = KindOf(resp)
  /\ lastLate' = (now >= deadline)
  /\ lastHttp' = IF resp.kind = "http" THEN <<resp.code, resp.text>> ELSE lastHttp
  /\ UNCHANGED initKind
  /\ nonTerm' = IF KindOf(resp) = "nonterminal" THEN nonTerm + 1 ELSE nonTerm
  /\ termView' = IF KindOf(resp) = "success"
                   THEN OrElse(OrElse(resp.data.gammaUrl, resp.data.url),
                               resp.data.shareUrl)
                   ELSE termView
  /\ UNCHANGED << params, intervalMs, timeoutMs, generationId, targetPath,
                  savedFilePath, now, deadline, initCalls, statusCalls,
                  downloadCalls, writeCalls >>
  /\ CASE resp.kind = "threw" ->
            /\ pollOutcome' = "threw"
            /\ Raise("poll", resp.err)
            /\ UNCHANGED << gammaUrl, fileUrl, sleepLeft, mkdirCalls >>
       [] resp.kind = "http" ->
            /\ pollOutcome' = "pollError"
            /\ Raise("poll", PollFailedError(resp.code, resp.text))
            /\ UNCHANGED << gammaUrl, fileUrl, sleepLeft, mkdirCalls >>
       [] resp.kind = "malformed" ->
            /\ pollOutcome' = "threw"
            /\ Raise("poll", SyntaxErr)
            /\ UNCHANGED << gammaUrl, fileUrl, sleepLeft, mkdirCalls >>
       [] resp.kind = "json" /\ IsSuccess(StatusOf(resp.data)) ->
            /\ pollOutcome' = "succeeded"
            /\ gammaUrl' = ViewUrl(resp.data)
            /\ fileUrl' = FileUrl(resp.data)
            /\ UNCHANGED sleepLeft
            /\ IF WantsDownload(fileUrl', params.exportAs)
                 THEN /\ mkdirCalls' = mkdirCalls + 1
                      /\ pc' = "awaitMkdir"
                      /\ UNCHANGED << result, toolResponse, escaped, raisedAt >>
                 ELSE /\ Return(gammaUrl', savedFilePath)
                      /\ UNCHANGED mkdirCalls
       [] resp.kind = "json" /\ ~IsSuccess(StatusOf(resp.data))
                             /\ IsFailure(StatusOf(resp.data)) ->
            /\ pollOutcome' = "failed"
            /\ Raise("poll", GenerationFailedError)
            /\ UNCHANGED << gammaUrl, fileUrl, sleepLeft, mkdirCalls >>
       [] resp.kind = "json" /\ ~IsSuccess(StatusOf(resp.data))
                             /\ ~IsFailure(StatusOf(resp.data)) ->
            /\ sleepLeft' = SleepTicks(intervalMs)
            /\ pc' = "sleeping"
            /\ UNCHANGED << gammaUrl, fileUrl, mkdirCalls, pollOutcome, result,
                            toolResponse, escaped, raisedAt >>

\* the sleep of pollGeneration resolves
Wake ==
  /\ UNCHANGED << body, dlVars, sideVars, target >>
  /\ pc = "sleeping"
  /\ sleepLeft = 0
  /\ pc' = "pollHead"
  /\ UNCHANGED << progVars, now, deadline, sleepLeft, result, toolResponse, escaped,
                  pollOutcome, raisedAt, callVars, ghostVars >>

\* a tick passes for the suspended invocation too: its timer runs on
Elapse(p) ==
  IF p = Nobody THEN p
  ELSE [p EXCEPT !.sleepLeft = IF p.sleepLeft > 0 THEN p.sleepLeft - 1 ELSE 0]

\* the clock advances while pollGeneration runs
Tick ==
  /\ UNCHANGED << body, dlVars, cli, pure, self, target >>
  /\ parked' = Elapse(parked)
  /\ pc \in {"pollHead", "awaitStatus", "sleeping"}
  /\ now < MaxTime \/ sleepLeft > 0
  /\ now' = IF now < MaxTime THEN now + 1 ELSE now
  /\ sleepLeft' = IF sleepLeft > 0 THEN sleepLeft - 1 ELSE 0
  /\ UNCHANGED << pc, progVars, deadline, result, toolResponse, escaped, pollOutcome,
                  raisedAt, callVars, ghostVars >>

\* mkdir(outDir) settles; then new URL(fileUrl) and the download GET
MkdirDone(err) ==
  /\ UNCHANGED << body, disk, sideVars, target >>
  /\ pc = "awaitMkdir"
  /\ UNCHANGED << params, intervalMs, timeoutMs, generationId, gammaUrl, fileUrl,
                  savedFilePath, now, deadline, sleepLeft, pollOutcome, initCalls,
                  statusCalls, mkdirCalls, writeCalls, ghostVars >>
  /\ IF err # "ok"
       THEN /\ Raise("download", CHOOSE e \in Errors : e.name = err)
            /\ dlKind' = "mkdirFailed"
            /\ UNCHANGED << targetPath, downloadCalls >>
       ELSE IF ~UrlParses(fileUrl)
         THEN /\ Raise("download", InvalidUrlErr)
              /\ dlKind' = "badUrl"
              /\ UNCHANGED << targetPath, downloadCalls >>
         ELSE /\ targetPath' = TargetPath(generationId, fileUrl, params.exportAs)
              /\ downloadCalls' = downloadCalls + 1
              /\ pc' = "awaitDownload"
              /\ UNCHANGED dlKind
              /\ UNCHANGED << result, toolResponse, escaped, raisedAt >>

\* the download GET settles
DownloadRespond(resp) ==
  /\ UNCHANGED << body, disk, sideVars, target >>
  /\ pc = "awaitDownload"
  /\ UNCHANGED << progVars, now, deadline, sleepLeft, pollOutcome, initCalls,
                  statusCalls, mkdirCalls, downloadCalls, ghostVars >>
  /\ CASE resp.kind = "threw" ->
            /\ Raise("download", resp.err)
            /\ dlKind' = "threw"
            /\ UNCHANGED writeCalls
       [] resp.kind = "http" ->
            /\ IF NonOkDownloadThrows
                 THEN Raise("download", DownloadFailedError(resp.code))
                 ELSE Return(gammaUrl, savedFilePath)
            /\ dlKind' = "http"
            /\ UNCHANGED writeCalls
       [] resp.kind = "body" /\ ~resp.readOk ->
            /\ Raise("download", CHOOSE e \in Errors : e.name = "FetchError")
            /\ dlKind' = "bodyFailed"
            /\ UNCHANGED writeCalls
       [] resp.kind = "body" /\ resp.readOk ->
            /\ writeCalls' = writeCalls + 1
            /\ pc' = "awaitWrite"
            /\ UNCHANGED dlKind
            /\ UNCHANGED << result, toolResponse, escaped, raisedAt >>

\* writeFile(targetPath, ...) settles
WriteDone(err) ==
  /\ UNCHANGED << body, sideVars, target >>
  /\ pc = "awaitWrite"
  /\ UNCHANGED << params, intervalMs, timeoutMs, generationId, gammaUrl, fileUrl,
                  targetPath, now, deadline, sleepLeft, pollOutcome, callVars,
                  ghostVars >>
  /\ IF err # "ok"
       THEN /\ Raise("download", CHOOSE e \in Errors : e.name = err)
            /\ dlKind' = "writeFailed"
            /\ UNCHANGED << savedFilePath, disk >>
       ELSE /\ savedFilePath' = targetPath
            /\ disk' = disk \cup {targetPath}
            /\ dlKind' = "ok"
            /\ Return(gammaUrl, savedFilePath')

FsOutcomes == {"ok"} \cup {e.name : e \in Errors}

Next ==
  \/ Start
  \/ \E resp \in InitResponses : InitRespond(resp)
  \/ PollHead
  \/ \E resp \in StatusResponses : StatusRespond(resp)
  \/ Wake
  \/ Tick
  \/ \E err \in FsOutcomes : MkdirDone(err)
  \/ \E resp \in DownloadResponses : DownloadRespond(resp)
  \/ \E err \in FsOutcomes : WriteDone(err)

Spec == Init /\ [][Next]_vars


\* the remote answers every request, the filesystem every call, the clock runs
FairSpec ==
  /\ Spec
  /\ WF_vars(Start)
  /\ WF_vars(\E resp \in InitResponses : InitRespond(resp))
  /\ WF_vars(PollHead)
  /\ WF_vars(\E resp \in StatusResponses : StatusRespond(resp))
  /\ WF_vars(Wake)
  /\ WF_vars(Tick)
  /\ WF_vars(\E err \in FsOutcomes : MkdirDone(err))
  /\ WF_vars(\E resp \in DownloadResponses : DownloadRespond(resp))
  /\ WF_vars(\E err \in FsOutcomes : WriteDone(err))

\* the clock runs and the program takes its own steps, but the remote may
\* leave a request unanswered for ever
StallSpec ==
  /\ Spec
  /\ WF_vars(Start)
  /\ WF_vars(PollHead)
  /\ WF_vars(Wake)
  /\ WF_vars(Tick)

\* ------------------------------------------- the configuration at startup
\* the variables of the generate-presentation flow
flowVars ==
  << pc, progVars, now, deadline, sleepLeft, result, toolResponse, escaped,
     pollOutcome, raisedAt, callVars, ghostVars, body, dlVars, target, self,
     parked >>

\* most --api-key and --header options on the command line
MaxArgs == 2

\* the name and value a --header argument is cut into ("" : no name)
HeaderNameInputs == {"", "Authorization", "authorization", "X-API-KEY", "x-api-key"}
HeaderValueInputs == {"", "v1", "v2"}
ApiKeyInputs == {"", "K"}
\* process.env.GAMMA_API_KEY, after dotenv
EnvInputs == {Undefined, "E"}

ArgOptions ==
  [flag : {"--api-key"}, value : ApiKeyInputs]
  \cup [flag : {"--header"}, name : HeaderNameInputs, value : HeaderValueInputs]

ArgvInputs == UNION {[1..n -> ArgOptions] : n \in 0..MaxArgs}

\* no request has been built
NotSent == << <<"<not sent>", "">> >>

\* the process starts: argv and the environment are given, nothing is parsed
ConfigInit ==
  /\ pc = "boot"
  /\ params = ExportParams(Undefined)
  /\ intervalMs = MaxInterval
  /\ timeoutMs = MaxTimeout
  /\ Quiet
  /\ Alone
  /\ pure = PureIdle
  /\ cli \in [phase : {"argv"}, argv : ArgvInputs, env : EnvInputs,
              CLI : {[apiKey |-> Undefined, headers |-> <<>>]},
              transport : {"closed"}, connectResult : {"none"},
              submitHeaders : {NotSent}, statusHeaders : {NotSent},
              downloadHeaders : {NotSent}]

\* const CLI = parseCliArgs(process.argv.slice(2))
ParseArgs ==
  /\ cli.phase = "argv"
  /\ cli' = [cli EXCEPT !.phase = "parsed", !.CLI = ParseCliArgs(cli.argv)]
  /\ UNCHANGED << flowVars, pure >>

\* variant: main refuses to connect without GAMMA_API_KEY in the environment
MayConnect_NeedsKey(env) == Truthy(env)

\* what main() requires of the environment before server.connect: nothing
MayConnect(env) == TRUE

\* main(): server.connect(transport) resolves and the server accepts tool
\* invocations, or it rejects and main().catch logs the error and exits
Main(outcome) ==
  /\ cli.phase = "parsed"
  /\ cli.transport = "closed"
  /\ cli' = [cli EXCEPT !.connectResult = outcome,
                        !.transport = IF MayConnect(cli.env) /\ outcome = "ok"
                                        THEN "connected" ELSE "exited"]
  /\ UNCHANGED << flowVars, pure >>

\* variant: the download GET is sent with the composed headers
DownloadRequestHeaders_Auth(c, env) == BuildHeaders(c, env)

\* fetch(fileUrl, { method: "GET" }): the headers given to the download GET
DownloadRequestHeaders(c, env) == <<>>

\* startGeneration builds the headers of the creation POST
SubmitHeaders ==
  /\ cli.phase = "parsed"
  /\ cli.transport = "connected"
  /\ cli.submitHeaders = NotSent
  /\ cli' = [cli EXCEPT !.submitHeaders = BuildHeaders(cli.CLI, cli.env)]
  /\ UNCHANGED << flowVars, pure >>

\* pollGeneration builds the headers of a status GET
StatusHeaders ==
  /\ cli.phase = "parsed"
  /\ cli.submitHeaders # NotSent
  /\ cli.statusHeaders = NotSent
  /\ cli' = [cli EXCEPT !.statusHeaders = BuildHeaders(cli.CLI, cli.env)]
  /\ UNCHANGED << flowVars, pure >>

\* generatePresentation issues the download GET
DownloadHeaders ==
  /\ cli.phase = "parsed"
  /\ cli.statusHeaders # NotSent
  /\ cli.downloadHeaders = NotSent
  /\ cli' = [cli EXCEPT !.downloadHeaders = DownloadRequestHeaders(cli.CLI, cli.env)]
  /\ UNCHANGED << flowVars, pure >>

ConfigNext ==
  \/ ParseArgs
  \/ \E outcome \in {"ok", "failed"} : Main(outcome)
  \/ SubmitHeaders
  \/ StatusHeaders
  \/ DownloadHeaders

ConfigSpec == ConfigInit /\ [][ConfigNext]_vars

\* ------------------------------------------------ the payload of the POST
\* most optional parameters given in one invocation
MaxSetParams == 2

\* the schema-valid parameter objects with at most MaxSetParams parameters given
ParamObjects ==
  UNION { UNION { { ParamsOf(given, numCards) :
                      given \in { g \in [names -> UNION {ParamValues(f) : f \in names}] :
                                    \A f \in names : g[f] \in ParamValues(f) } } :
                  numCards \in {n \in {Undef} \cup NumCardsValues :
                                  Cardinality(names) + (IF n = Undef THEN 0 ELSE 1)
                                    <= MaxSetParams} } :
          names \in {S \in SUBSET OptionalParams : Cardinality(S) <= MaxSetParams} }

\* the tool is invoked with any such parameters
PayloadInit ==
  /\ pc = "start"
  /\ params \in ParamObjects
  /\ intervalMs = MaxInterval
  /\ timeoutMs = MaxTimeout
  /\ Quiet
  /\ Alone
  /\ cli = CliIdle
  /\ pure = PureIdle

\* the invocation up to the creation POST
PayloadSpec == PayloadInit /\ [][Start]_vars

\* --------------------------------------------------- the helper functions
\* most values (leaves, arrays, objects) in a request object tried
MaxNodes == 4

Leaves == {Undef, NullV, Str(""), Str("a")}
KeyName(i) == "k" \o ToString(i)
\* the object whose properties k1, k2, ... have these values
Keyed(values) == [i \in DOMAIN values |-> <<KeyName(i), values[i]>>]

RECURSIVE TreesOfSize(_)
RECURSIVE ForestsOfSize(_)
\* the sequences of values with m nodes in all
ForestsOfSize(m) ==
  IF m = 0 THEN {<<>>}
  ELSE UNION { {<<v>> \o f : v \in TreesOfSize(k), f \in ForestsOfSize(m - k)} :
               k \in 1..m }

\* the values with n nodes
TreesOfSize(n) ==
  (IF n = 1 THEN Leaves ELSE {})
    \cup {Arr(f) : f \in ForestsOfSize(n - 1)}
    \cup {Obj(Keyed(f)) : f \in ForestsOfSize(n - 1)}

PruneInputs == UNION {TreesOfSize(n) : n \in 1..MaxNodes}

\* values given to mapAmount: absent, empty, the vocabulary, legacy values,
\* other spellings, other words
AmountInputs ==
  { Undefined, "", "brief", "medium", "detailed", "extensive", "short", "long",
    "SHORT", "Long", "Brief", "EXTENSIVE", "huge", "Huge" }

\* the file fields of a terminal success answer, an export URL among them
FileFieldInputs ==
  [ exportUrl : {Undefined, "", "https://cdn/e"},
    pdfUrl : {Undefined, "https://cdn/p.pdf"},
    pptxUrl : {Undefined, "https://cdn/x.pptx"},
    files : {NoFiles} \cup FilesValues,
    resultFiles : {NoFiles, <<>>, <<[typ |-> "string", val |-> "https://cdn/r"]>>} ]

NotRun == [t |-> "<not run>"]
NotCalled == "<not called>"

\* a helper is about to be applied to an input
PureInit ==
  /\ pc = "boot"
  /\ params = ExportParams(Undefined)
  /\ intervalMs = MaxInterval
  /\ timeoutMs = MaxTimeout
  /\ Quiet
  /\ Alone
  /\ cli = CliIdle
  /\ pure \in [op : {"prune"}, x : PruneInputs, once : {NotRun}, twice : {NotRun}]
              \cup [op : {"mapAmount"}, val : AmountInputs, out : {NotCalled}]
              \cup [op : {"fileUrl"}, data : FileFieldInputs, out : {NotCalled},
                    outWithExport : {NotCalled}]

\* removeUndefinedDeep(x), as generatePresentation calls it
Prune ==
  /\ pure.op = "prune"
  /\ pure.once = NotRun
  /\ pure' = [pure EXCEPT !.once = RemoveUndefinedDeep(pure.x)]
  /\ UNCHANGED << flowVars, cli >>

\* removeUndefinedDeep on the result, as startGeneration calls it
PruneAgain ==
  /\ pure.op = "prune"
  /\ pure.once # NotRun
  /\ pure.twice = NotRun
  /\ pure' = [pure EXCEPT !.twice = RemoveUndefinedDeep(pure.once)]
  /\ UNCHANGED << flowVars, cli >>

\* mapAmount(val)
MapAmountCall ==
  /\ pure.op = "mapAmount"
  /\ pure.out = NotCalled
  /\ pure' = [pure EXCEPT !.out = MapAmount(pure.val)]
  /\ UNCHANGED << flowVars, cli >>

\* the file URL pollGeneration resolves from a terminal success answer, in the
\* revision that reads pdfUrl and pptxUrl and in the one that reads exportUrl too
ResolveFileUrl ==
  /\ pure.op = "fileUrl"
  /\ pure.out = NotCalled
  /\ pure' = [pure EXCEPT !.out = FileUrl(pure.data),
                          !.outWithExport = FileUrlWithExport(pure.data)]
  /\ UNCHANGED << flowVars, cli >>

PureNext == Prune \/ PruneAgain \/ MapAmountCall \/ ResolveFileUrl

PureSpec == PureInit /\ [][PureNext]_vars

\* ------------------------------------------- two invocations at one time
\* the variables of one call of generatePresentation: its parameters and the
\* locals of generatePresentation, startGeneration and pollGeneration, with
\* what is recorded about the call
Locals ==
  [ pc |-> pc, params |-> params, intervalMs |-> intervalMs,
    timeoutMs |-> timeoutMs, deadline |-> deadline, sleepLeft |-> sleepLeft,
    generationId |-> generationId, gammaUrl |-> gammaUrl, fileUrl |-> fileUrl,
    targetPath |-> targetPath, savedFilePath |-> savedFilePath,
    result |-> result, escaped |-> escaped, pollOutcome |-> pollOutcome,
    raisedAt |-> raisedAt, initCalls |-> initCalls, statusCalls |-> statusCalls,
    mkdirCalls |-> mkdirCalls, downloadCalls |-> downloadCalls,
    writeCalls |-> writeCalls, nonTerm |-> nonTerm, lastKind |-> lastKind,
    lastLate |-> lastLate, lastHttp |-> lastHttp, initKind |-> initKind,
    termView |-> termView, toolResponse |-> toolResponse, body |-> body,
    dlKind |-> dlKind, target |-> target ]

\* an invocation that has not started, asking for the export format exportAs
Fresh(exportAs) ==
  [ pc |-> "start", params |-> ExportParams(exportAs), intervalMs |-> 1,
    timeoutMs |-> 2, deadline |-> 0, sleepLeft |-> 0,
    generationId |-> Undefined, gammaUrl |-> Undefined, fileUrl |-> Undefined,
    targetPath |-> NoPath, savedFilePath |-> NullPath,
    result |-> NoResult, escaped |-> FALSE, pollOutcome |-> "none",
    raisedAt |-> "none", initCalls |-> 0, statusCalls |-> 0,
    mkdirCalls |-> 0, downloadCalls |-> 0,
    writeCalls |-> 0, nonTerm |-> 0, lastKind |-> "none",
    lastLate |-> FALSE, lastHttp |-> <<0, "">>, initKind |-> "none",
    termView |-> Undefined, toolResponse |-> NoResponse, body |-> NoBody,
    dlKind |-> "none", target |-> Undefined ]

\* the remote side: the job it creates for an invocation's submission, and the
\* view link and export file of a job
JobOf(i) == IF i = 1 THEN "g1" ELSE "g2"
JobView(id) == IF id = "g1" THEN "https://gamma.app/docs/G" ELSE "https://gamma.app/U"
JobFile(id) == IF id = "g1" THEN "https://cdn/p.pdf" ELSE "https://cdn/x.pptx"

\* the answers to the creation POST of invocation i
JobInitResponses(i) ==
  { [kind |-> "http", code |-> 500, text |-> ""],
    [kind |-> "json", code |-> 200, generationId |-> JobOf(i)] }

\* the answers to a status GET for the job id: still pending, or completed
\* with that job's links
JobStatusResponses(id) ==
  { [kind |-> "http", code |-> 500, text |-> ""],
    [kind |-> "json", code |-> 200,
     data |-> [status |-> "pending", gammaUrl |-> Undefined, url |-> Undefined,
               shareUrl |-> Undefined, pdfUrl |-> Undefined, pptxUrl |-> Undefined,
               files |-> NoFiles, resultFiles |-> NoFiles]],
    [kind |-> "json", code |-> 200,
     data |-> [status |-> "completed", gammaUrl |-> JobView(id), url |-> Undefined,
               shareUrl |-> Undefined,
               pdfUrl |-> IF id = "g1" THEN JobFile(id) ELSE Undefined,
               pptxUrl |-> IF id = "g1" THEN Undefined ELSE JobFile(id),
               files |-> NoFiles, resultFiles |-> NoFiles]] }

\* the answers to the download GET
JobDownloadResponses ==
  { [kind |-> "http", code |-> 404],
    [kind |-> "body", code |-> 200, readOk |-> TRUE] }

\* variant: the generation id lives outside the invocation, one for all
IdAfterResume_Shared(own, latest) == latest

\* const generationId = await startGeneration(payload): the id is a local of
\* the invocation, which finds its own when it resumes
IdAfterResume(own, latest) == own

\* the places where an invocation is suspended, not started, or over
SuspensionPoints ==
  { "start", "awaitInit", "awaitStatus", "sleeping", "awaitMkdir",
    "awaitDownload", "awaitWrite", "done" }

\* the event loop resumes the other invocation while this one is suspended
Switch ==
  /\ parked # Nobody
  /\ pc \in SuspensionPoints
  /\ parked' = Locals
  /\ self' = IF self = 1 THEN 2 ELSE 1
  /\ pc' = parked.pc
  /\ params' = parked.params
  /\ intervalMs' = parked.intervalMs
  /\ timeoutMs' = parked.timeoutMs
  /\ deadline' = parked.deadline
  /\ sleepLeft' = parked.sleepLeft
  /\ generationId' = IdAfterResume(parked.generationId, generationId)
  /\ gammaUrl' = parked.gammaUrl
  /\ fileUrl' = parked.fileUrl
  /\ targetPath' = parked.targetPath
  /\ savedFilePath' = parked.savedFilePath
  /\ result' = parked.result
  /\ escaped' = parked.escaped
  /\ pollOutcome' = parked.pollOutcome
  /\ raisedAt' = parked.raisedAt
  /\ initCalls' = parked.initCalls
  /\ statusCalls' = parked.statusCalls
  /\ mkdirCalls' = parked.mkdirCalls
  /\ downloadCalls' = parked.downloadCalls
  /\ writeCalls' = parked.writeCalls
  /\ nonTerm' = parked.nonTerm
  /\ lastKind' = parked.lastKind
  /\ lastLate' = parked.lastLate
  /\ lastHttp' = parked.lastHttp
  /\ initKind' = parked.initKind
  /\ termView' = parked.termView
  /\ toolResponse' = parked.toolResponse
  /\ body' = parked.body
  /\ dlKind' = parked.dlKind
  /\ target' = parked.target
  /\ UNCHANGED << now, disk, cli, pure >>

\* two invocations are accepted, the first runs
ConcInit ==
  /\ pc = "start"
  /\ params = ExportParams("pdf")
  /\ intervalMs = 1
  /\ timeoutMs = 2
  /\ Quiet
  /\ cli = CliIdle
  /\ pure = PureIdle
  /\ self = 1
  /\ parked = Fresh("pptx")

ConcNext ==
  \/ Start
  \/ /\ now + timeoutMs <= MaxTimeout
     /\ \E resp \in JobInitResponses(self) : InitRespond(resp)
  \/ PollHead
  \/ \E resp \in JobStatusResponses(target) : StatusRespond(resp)
  \/ Wake
  \/ Tick
  \/ MkdirDone("ok")
  \/ \E resp \in JobDownloadResponses : DownloadRespond(resp)
  \/ WriteDone("ok")
  \/ Switch

ConcSpec == ConcInit /\ [][ConcNext]_vars

\* ------------------------------------------------------------- claims
Failed == raisedAt # "none"
JobCreated == generationId # Undefined
PollFinished == pollOutcome # "none"

C2_ResultInvariant ==
  pc = "done" =>
    IF Failed
      THEN /\ result.url = Null
           /\ result.filePath = NullPath
           /\ result.error # NullErr
           /\ result.error # <<>>
      ELSE result.error = NullErr

\* a thrown error with an empty message still yields a description
C2_Witness == pc = "done" /\ Failed /\ result.error = <<"Error">>

\* C3 as stated: pollGeneration finishes with one of succeeded, failed, timed out.
C3_Original == PollFinished => pollOutcome \in {"succeeded", "failed", "timedOut"}

\* C3 (amended): every job created by a successful submission ends in exactly
\* one outcome, which is succeeded, failed, timed out, or a poll error (non-2xx
\* status answer, or an exception of the request or of reading its body); the
\* outcome is the one the last answer decides, it never changes once set, and
\* no status call is made after it.
C3_OneOutcome ==
  /\ [](pollOutcome \in {"none", "succeeded", "failed", "timedOut", "pollError", "threw"})
  /\ [](pc = "done" /\ JobCreated => PollFinished)
  /\ []((pollOutcome = "succeeded") <=> (lastKind = "success"))
  /\ []((pollOutcome = "failed") <=> (lastKind = "failure"))
  /\ []((pollOutcome = "pollError") <=> (lastKind = "http"))
  /\ []((pollOutcome = "threw") <=> (lastKind \in {"threw", "malformed"}))
  /\ [](pollOutcome = "timedOut" => lastKind \in {"none", "nonterminal"})
  /\ [][PollFinished => pollOutcome' = pollOutcome /\ statusCalls' = statusCalls]_vars

\* a job polled twice that ended with a poll error
C3_Witness == pc = "done" /\ pollOutcome = "pollError" /\ statusCalls = 2


\* C4: with a clock that keeps advancing, every call to pollGeneration
\* eventually returns or throws, also when a status request never receives a
\* response.
C4_PollEnds == (pc = "awaitStatus") ~> PollFinished

\* C5 as stated: after n non-terminal answers and a terminal success answer
\* with a view URL, the operation returns that view URL after n+1 status calls.
C5_Original ==
  pc = "done" /\ Truthy(termView) =>
    /\ result.url = termView
    /\ result.error = NullErr
    /\ statusCalls = nonTerm + 1

\* C5 (amended): after n non-terminal answers and a terminal success answer
\* with a view URL, pollGeneration returns that view URL and exactly n+1 status
\* calls are made; the operation returns that view URL with no error unless the
\* download step that follows raises, and then it returns the error-only result.
C5_Amended ==
  /\ Truthy(termView) =>
       /\ pollOutcome = "succeeded"
       /\ gammaUrl = termView
       /\ statusCalls = nonTerm + 1
  /\ pc = "done" /\ Truthy(termView) /\ raisedAt # "download" =>
       result.url = termView /\ result.error = NullErr
  /\ pc = "done" /\ Truthy(termView) /\ raisedAt = "download" =>
       result.url = Null /\ result.error # NullErr

\* the sequence [pending, pending, completed]: three status calls, URL returned
C5_Witness ==
  pc = "done" /\ Truthy(termView) /\ nonTerm = 2 /\ statusCalls = 3
    /\ result.url = termView

C7_Original ==
  PollFinished /\ lastLate /\ lastKind \in {"nonterminal", "success", "failure"}
    => pollOutcome = "timedOut"

\* C7 (amended): pollGeneration fails with the timeout error exactly when the
\* loop head finds the deadline reached, which happens after a non-terminal
\* answer (or before any call), whatever that non-terminal status is; a
\* terminal status answered after the deadline to a call issued before it
\* still decides the outcome (success returns, failure is generation-failed).
C7_Amended ==
  PollFinished =>
    /\ (lastKind \in {"none", "nonterminal"}) <=> (pollOutcome = "timedOut")
    /\ pollOutcome = "timedOut" => now >= deadline
    /\ lastLate /\ lastKind = "success" => pollOutcome = "succeeded"
    /\ lastLate /\ lastKind = "failure" => pollOutcome = "failed"

\* a non-terminal answer arrived after the deadline and the poll timed out
C7_Witness ==
  pollOutcome = "timedOut" /\ lastLate /\ lastKind = "nonterminal" /\ timeoutMs > 0

\* C8: a terminal failure status ("failed" or "error", in any letter case) fails
\* the operation with the generation-failed error; no further status call is
\* made and no download is attempted (no mkdir, no GET, no write).
C8_FailedNoDownload ==
  lastKind = "failure" =>
    /\ pc = "done"
    /\ pollOutcome = "failed"
    /\ result = [url |-> Null, filePath |-> NullPath,
                 error |-> <<"Gamma v0.2 generation failed">>]
    /\ statusCalls = nonTerm + 1
    /\ mkdirCalls = 0 /\ downloadCalls = 0 /\ writeCalls = 0

\* a failure answered after a non-terminal one, with an export requested
C8_Witness ==
  lastKind = "failure" /\ nonTerm >= 1 /\ params.exportAs = "pdf" /\ pc = "done"

\* C9: a non-2xx status answer fails pollGeneration at once with the poll error
\* carrying the HTTP status and the body text; no sleep and no further status
\* call follow, and the operation returns the failure result.
C9_PollErrorImmediate ==
  lastKind = "http" =>
    /\ pc = "done"
    /\ pollOutcome = "pollError"
    /\ statusCalls = nonTerm + 1
    /\ sleepLeft = 0
    /\ mkdirCalls = 0 /\ downloadCalls = 0
    /\ result = [url |-> Null, filePath |-> NullPath,
                 error |-> <<"Gamma v0.2 poll failed:", ToString(lastHttp[1]),
                             lastHttp[2]>>]

\* a 500 with body text answered to the second status call
C9_Witness ==
  lastKind = "http" /\ lastHttp = <<500, "quota exceeded">> /\ statusCalls = 2
    /\ pc = "done"

\* C10: a non-2xx answer to the creation call, or a 2xx answer without a
\* non-empty generationId, fails the operation with the initiation error
\* (carrying status and body text when non-2xx); no status call and no
\* download call is made.
C10_InitFailure ==
  /\ initKind = "http" =>
       /\ pc = "done"
       /\ result = [url |-> Null, filePath |-> NullPath,
                    error |-> <<"Gamma v0.2 init failed:", ToString(lastHttp[1]),
                                lastHttp[2]>>]
  /\ initKind = "noId" =>
       /\ pc = "done"
       /\ result = [url |-> Null, filePath |-> NullPath,
                    error |-> <<"Gamma v0.2 init response missing generation id">>]
  /\ initKind \in {"http", "noId"} =>
       /\ initCalls = 1 /\ statusCalls = 0
       /\ mkdirCalls = 0 /\ downloadCalls = 0 /\ writeCalls = 0

\* a 2xx creation answer whose generationId is missing or empty
C10_Witness == initKind = "noId" /\ pc = "done" /\ lastHttp = <<0, "">>

\* --------------------------------------------------- claims on the download
\* the download step ended by an exception
DownloadRaised ==
  dlKind \in {"mkdirFailed", "badUrl", "threw", "bodyFailed", "writeFailed"}

\* C11: when poll ends in terminal success with a view link and a file URL, an
\* export was requested and the download GET answers non-2xx, the operation
\* still reports success: url is the view link, filePath is null, error is
\* null, and no file is written.
C11_NonOkDownload ==
  dlKind = "http" /\ Truthy(termView) =>
    /\ pc = "done"
    /\ result = [url |-> termView, filePath |-> NullPath, error |-> NullErr]
    /\ Truthy(params.exportAs) /\ Truthy(fileUrl)
    /\ writeCalls = 0
    /\ disk = {}

\* a 404 answered to the download of a pptx export, after a view link
C11_Witness ==
  /\ dlKind = "http" /\ pc = "done" /\ params.exportAs = "pptx"
  /\ Truthy(termView) /\ result.url = termView /\ downloadCalls = 1

\* C12 as stated: after poll succeeded with a view link, every failure of the
\* download step leaves the view link in the result, with error null and
\* filePath null.
C12_Original ==
  pc = "done" /\ Truthy(termView) /\ (dlKind = "http" \/ DownloadRaised) =>
    result = [url |-> termView, filePath |-> NullPath, error |-> NullErr]

\* C12 (amended): after poll succeeded with a view link, a non-2xx answer to
\* the download GET only degrades the result (view link kept, filePath null,
\* error null); an exception raised in the download step (creating the
\* directory, parsing the file URL, the GET, reading the body, writing the
\* file) ends the operation with the error-only result: url null, filePath
\* null and the error description.
C12_Amended ==
  /\ pc = "done" /\ Truthy(termView) /\ dlKind = "http" =>
       /\ result.url = termView
       /\ result.filePath = NullPath
       /\ result.error = NullErr
       /\ raisedAt = "none"
  /\ Truthy(termView) /\ DownloadRaised =>
       /\ pc = "done"
       /\ raisedAt = "download"
       /\ result.url = Null
       /\ result.filePath = NullPath
       /\ result.error \notin {NullErr, <<>>}

\* writeFile failed after a view link was resolved and the file fetched
C12_Witness ==
  /\ dlKind = "writeFailed" /\ Truthy(termView) /\ pc = "done"
  /\ writeCalls = 1 /\ result.url = Null

\* C13: the download step (mkdir and the GET of the file URL) runs only if
\* poll resolved a file URL and an export format was requested; where either
\* is missing no download request is issued and filePath is null.
C13_DownloadGuard ==
  /\ mkdirCalls > 0 \/ downloadCalls > 0 \/ dlKind # "none" =>
       Truthy(fileUrl) /\ Truthy(params.exportAs)
  /\ pc = "done" /\ ~(Truthy(fileUrl) /\ Truthy(params.exportAs)) =>
       /\ mkdirCalls = 0 /\ downloadCalls = 0 /\ writeCalls = 0
       /\ result.filePath = NullPath

\* poll resolved a file URL but no export was requested: nothing is fetched
C13_Witness ==
  /\ pc = "done" /\ pollOutcome = "succeeded" /\ Truthy(fileUrl)
  /\ params.exportAs = Undefined /\ mkdirCalls = 0 /\ downloadCalls = 0

\* C14: the result's filePath is non-null if and only if the download GET
\* answered 2xx and the whole body was written to the target path, and then
\* filePath is exactly the path written.
C14_FilePath ==
  /\ pc = "done" => (result.filePath # NullPath <=> dlKind = "ok")
  /\ dlKind = "ok" =>
       /\ pc = "done"
       /\ result.filePath = targetPath
       /\ disk = {targetPath}
       /\ downloadCalls = 1 /\ writeCalls = 1
  /\ dlKind # "ok" => disk = {}

\* a pdf export fetched and written under the generation's name
C14_Witness ==
  /\ pc = "done" /\ dlKind = "ok"
  /\ result.filePath = <<"output", "gamma-generation-", "g1", ".pdf">>

\* ---------------------------------------------------- claims on the handler
\* the fragments of needle occur consecutively in text
ContainsSeq(text, needle) ==
  \E i \in 1..(Len(text) + 1) :
    i + Len(needle) - 1 <= Len(text)
      /\ SubSeq(text, i, i + Len(needle) - 1) = needle

\* C15: the handler returns exactly one text content item and never raises;
\* when the operation succeeded the text carries the view link, and the local
\* file path exactly when a file was downloaded; when the operation failed the
\* text is a failure message carrying the error description.
C15_HandlerText ==
  pc = "done" =>
    /\ ~escaped
    /\ Len(toolResponse.content) = 1
    /\ toolResponse.content[1].type = "text"
    /\ LET text == toolResponse.content[1].text
       IN  IF Failed
             THEN /\ text[1] = "Failed to generate presentation using Gamma API. Error:"
                  /\ ContainsSeq(text, result.error)
             ELSE /\ text[1] = "Presentation generated! View it here:"
                  /\ Truthy(termView) => ContainsSeq(text, <<termView>>)
                  /\ dlKind = "ok" <=> ContainsSeq(text, targetPath)

\* ---------------------------------------------- claims on the configuration
\* the spellings tried of the two header names
AuthNames == {"Authorization", "authorization"}
KeyNames == {"X-API-KEY", "x-api-key"}

\* the header overrides on the command line: their names, and for a name the
\* value of its last --header option
GivenAt(name) ==
  {i \in DOMAIN cli.argv : cli.argv[i].flag = "--header" /\ cli.argv[i].name = name}
GivenNames == {n \in AuthNames \cup KeyNames : GivenAt(n) # {}}
GivenValue(name) ==
  cli.argv[CHOOSE i \in GivenAt(name) : \A j \in GivenAt(name) : j <= i].value

\* the value of the last --api-key option, undefined without one
FlagAt == {i \in DOMAIN cli.argv : cli.argv[i].flag = "--api-key"}
FlagValue ==
  IF FlagAt = {} THEN Undefined
  ELSE cli.argv[CHOOSE i \in FlagAt : \A j \in FlagAt : j <= i].value

\* every Authorization and key-header override given carries a value
OverridesHaveValues == \A n \in GivenNames : GivenValue(n) # ""

\* the values a header set carries under a spelling of X-API-KEY
KeyValuesOf(h) == {h[i][2] : i \in {j \in DOMAIN h : h[j][1] \in KeyNames}}
Entries(h) == {h[i] : i \in DOMAIN h}

\* C16: if an Authorization override is given (its name in any case) and no
\* key-header override, the headers buildHeaders returns carry the original
\* Authorization and an X-API-KEY of the same value; if a key-header override
\* is given too, X-API-KEY keeps the key-header value.
C16_Mirror ==
  cli.phase = "parsed" /\ cli.submitHeaders # NotSent /\ OverridesHaveValues =>
    LET h == cli.submitHeaders
        auth == GivenNames \cap AuthNames
        key == GivenNames \cap KeyNames
    IN  /\ auth # {} /\ key = {} =>
             /\ \A n \in auth : <<n, GivenValue(n)>> \in Entries(h)
             /\ KeyValuesOf(h) # {}
             /\ KeyValuesOf(h) \subseteq {GivenValue(n) : n \in auth}
        /\ auth # {} /\ key # {} =>
             KeyValuesOf(h) = {GivenValue(n) : n \in key}

\* C17: the headers sent are the default content headers, then the environment
\* key, then the explicit startup parameters; when a key is given explicitly
\* (--api-key, a key header, an Authorization header) the X-API-KEY of every
\* submit and status request is an explicitly given value, and the environment
\* key is sent only when none is given.
C17_Precedence ==
  cli.phase = "parsed" /\ OverridesHaveValues =>
    LET explicit == {v \in {FlagValue} : Truthy(v)}
                      \cup {GivenValue(n) : n \in GivenNames}
    IN  /\ \A h \in {cli.submitHeaders, cli.statusHeaders} \ {NotSent} :
             /\ Entries(DefaultHeaders) \subseteq Entries(h)
             /\ IF explicit # {}
                  THEN KeyValuesOf(h) # {} /\ KeyValuesOf(h) \subseteq explicit
                  ELSE IF Truthy(cli.env) THEN KeyValuesOf(h) = {cli.env}
                  ELSE KeyValuesOf(h) = {}
        /\ cli.statusHeaders # NotSent => cli.statusHeaders = cli.submitHeaders

\* ------------------------------------------------- claims on the helpers
\* no property of v, at any depth, is undefined or an object or array without
\* members, and no array item is undefined
RECURSIVE Pruned(_)
Pruned(v) ==
  IF v.t = "array"
    THEN \A i \in DOMAIN v.items : v.items[i].t # "undefined" /\ Pruned(v.items[i])
  ELSE IF v.t = "object"
    THEN \A i \in DOMAIN v.members :
           LET w == v.members[i][2]
           IN  /\ w.t # "undefined"
               /\ ~(w.t = "object" /\ Len(w.members) = 0)
               /\ ~(w.t = "array" /\ Len(w.items) = 0)
               /\ Pruned(w)
  ELSE TRUE

\* C18: removeUndefinedDeep removes every key whose value is undefined or
\* empty (an object or array left without members), at every depth, keeps a
\* value that has no such key as it is, and is idempotent: pruning the pruned
\* value again returns it unchanged.
C18_Prune ==
  pure.op = "prune" =>
    /\ pure.once # NotRun =>
         /\ Pruned(pure.once)
         /\ Pruned(pure.x) => pure.once = pure.x
    /\ pure.twice # NotRun => pure.twice = pure.once

\* {k1: {k1: undefined}, k2: "a"} is pruned to {k2: "a"}, twice
C18_Witness ==
  /\ pure.op = "prune"
  /\ pure.x = Obj(<< <<"k1", Obj(<< <<"k1", Undef>> >>)>>, <<"k2", Str("a")>> >>)
  /\ pure.once = Obj(<< <<"k2", Str("a")>> >>)
  /\ pure.twice = pure.once

\* spellings of the amounts in other cases, and the amount each spells
Spelled(val) ==
  CASE val = "SHORT" -> "short"
    [] val = "Long" -> "long"
    [] val = "Brief" -> "brief"
    [] val = "EXTENSIVE" -> "extensive"
    [] OTHER -> val

\* what the mapping gives for an amount in lower case
Mapped(v) ==
  CASE v = "short" -> "brief"
    [] v = "long" -> "detailed"
    [] v \in {"brief", "medium", "detailed", "extensive"} -> v
    [] OTHER -> Undefined

Has(obj, name) == \E i \in DOMAIN obj.members : obj.members[i][1] = name
Member(obj, name) ==
  obj.members[CHOOSE i \in DOMAIN obj.members : obj.members[i][1] = name][2]

\* the option groups of the request: property name, parameter name
Groups ==
  [ textOptions |-> { <<"amount", "textAmount">>, <<"tone", "tone">>,
                      <<"audience", "audience">>, <<"language", "language">> },
    imageOptions |-> { <<"source", "imageSource">>, <<"model", "imageModel">>,
                       <<"style", "imageStyle">> },
    cardOptions |-> { <<"dimensions", "cardDimensions">> },
    sharingOptions |-> { <<"workspaceAccess", "workspaceAccess">>,
                         <<"externalAccess", "externalAccess">> } ]
TopLevel ==
  {"textMode", "format", "themeName", "cardSplit", "additionalInstructions", "exportAs"}

\* the properties, at any depth, whose value is null
RECURSIVE NullsOf(_)
NullsOf(v) ==
  IF v.t = "object"
    THEN UNION { IF v.members[i][2].t = "null" THEN {v.members[i][1]}
                 ELSE NullsOf(v.members[i][2]) : i \in DOMAIN v.members }
    ELSE {}

Offered(files) ==
  IF files = NoFiles \/ files = <<>> THEN Undefined
  ELSE IF files[1].val \in {Undefined, ""} THEN Undefined ELSE files[1].val

\* the fields of an answer by priority, highest first; a tier holds the values
\* present in it
Tiers(data, withExport) ==
  << IF withExport THEN {data.exportUrl} \ {Undefined, ""} ELSE {},
     {data.pdfUrl, data.pptxUrl} \ {Undefined, ""},
     {Offered(data.files)} \ {Undefined},
     {Offered(data.resultFiles)} \ {Undefined} >>

\* out is a value of the highest tier that holds one, absent when none does
FromHighestTier(out, tiers) ==
  IF \A i \in DOMAIN tiers : tiers[i] = {} THEN out = Undefined
  ELSE LET top == CHOOSE i \in DOMAIN tiers :
                    tiers[i] # {} /\ \A j \in DOMAIN tiers : j < i => tiers[j] = {}
       IN  out \in tiers[top]

EmptyResult == [url |-> Null, filePath |-> NullPath, error |-> NullErr]

\* C22: on a terminal success status (completed, succeeded or success in any
\* letter case) pollGeneration returns normally with what it found: the view URL
\* is the first present of gammaUrl, url, shareUrl; when neither a view URL nor
\* a file URL is present it still returns, with both absent, and nothing fails.
C22_SuccessReturns ==
  lastKind = "success" =>
    /\ pollOutcome = "succeeded"
    /\ raisedAt # "poll"
    /\ gammaUrl = termView
    /\ ~Truthy(termView) /\ ~Truthy(fileUrl) =>
         /\ pc = "done" /\ ~Failed
         /\ result = EmptyResult
         /\ mkdirCalls = 0 /\ downloadCalls = 0

\* a job that answered Succeeded after a pending answer, with no URL of any kind
C22_Witness ==
  /\ lastKind = "success" /\ nonTerm = 1 /\ pc = "done"
  /\ ~Truthy(gammaUrl) /\ ~Truthy(fileUrl)
  /\ params.exportAs = "pdf"
  /\ result = EmptyResult

\* the HTTP calls that failed: no answer, a non-2xx answer, an unreadable body
FailedCall == {"threw", "http", "malformed"}

\* C23: no remote call is retried: one invocation issues at most one creation
\* POST and at most one download GET, and once an HTTP call of the submission
\* or of the polling has failed the invocation is over and has made no further
\* HTTP call of any kind.
C23_NoRetry ==
  /\ initCalls <= 1 /\ downloadCalls <= 1
  /\ initKind \in FailedCall =>
       /\ pc = "done" /\ raisedAt = "submit"
       /\ initCalls = 1 /\ statusCalls = 0 /\ downloadCalls = 0
  /\ lastKind \in FailedCall =>
       /\ pc = "done" /\ raisedAt = "poll"
       /\ initCalls = 1 /\ statusCalls = nonTerm + 1 /\ downloadCalls = 0
  /\ dlKind \in {"threw", "http"} =>
       /\ pc = "done"
       /\ initCalls = 1 /\ statusCalls = nonTerm + 1 /\ downloadCalls = 1

\* the second status call answered 500 while an export was requested
C23_Witness ==
  /\ pc = "done" /\ lastKind = "http" /\ statusCalls = 2
  /\ params.exportAs = "pdf" /\ initCalls = 1 /\ downloadCalls = 0

\* C25: whenever exportAs is provided and the generation completes with a file
\* that is downloaded and written to the output directory, the tool response
\* contains the path of the saved file alongside the view link.
C25_ExportReported ==
  pc = "done" /\ Truthy(params.exportAs) /\ lastKind = "success" /\ dlKind = "ok" =>
    /\ targetPath \in disk
    /\ ContainsSeq(toolResponse.content[1].text, targetPath)
    /\ Truthy(termView) => ContainsSeq(toolResponse.content[1].text, <<termView>>)

\* requests issued and not yet answered
InitOutstanding == initCalls - (IF initKind = "none" THEN 0 ELSE 1)
StatusOutstanding ==
  statusCalls - nonTerm - (IF lastKind \in {"none", "nonterminal"} THEN 0 ELSE 1)
DownloadOutstanding ==
  downloadCalls
    - (IF writeCalls > 0 \/ dlKind \in {"threw", "http", "bodyFailed"} THEN 1 ELSE 0)

\* C27: the remote calls of one invocation form a sequential chain with at most
\* one request outstanding: the creation call is answered before the first
\* status call, a status call is issued only when the previous one is answered
\* and one sleep of intervalMs has passed since, and the download GET is issued
\* only after a status answer with a terminal success status.
C27_Sequential ==
  /\ [](/\ InitOutstanding \in {0, 1} /\ StatusOutstanding \in {0, 1}
        /\ DownloadOutstanding \in {0, 1}
        /\ InitOutstanding + StatusOutstanding + DownloadOutstanding <= 1)
  /\ [](statusCalls > 0 => initKind = "ok")
  /\ [](statusCalls > 0 => now >= (statusCalls - 1) * intervalMs)
  /\ [](downloadCalls > 0 => lastKind = "success" /\ StatusOutstanding = 0)
  /\ [][statusCalls' # statusCalls =>
          /\ statusCalls' = statusCalls + 1
          /\ StatusOutstanding = 0
          /\ statusCalls > 0 => lastKind = "nonterminal" /\ sleepLeft = 0]_vars

\* the download GET in flight after pending, pending, completed
C27_Witness ==
  /\ pc = "awaitDownload" /\ statusCalls = 3 /\ nonTerm = 2
  /\ DownloadOutstanding = 1 /\ now >= 2 * intervalMs

\* C28: a status outside the success set and the failure set, a missing or
\* empty one included, is non-terminal: pollGeneration sleeps exactly one
\* interval and then polls again; a job that only reports such statuses ends
\* with the timeout error, never with success or generation-failed.
C28_NonTerminal ==
  /\ [](lastKind = "nonterminal" => pollOutcome \in {"none", "timedOut"})
  /\ [](pc = "done" /\ lastKind = "nonterminal" =>
          /\ raisedAt = "poll"
          /\ result.error = <<"Gamma v0.2 generation timed out while waiting for result">>
          /\ result.url = Null /\ mkdirCalls = 0)
  /\ [][nonTerm' # nonTerm =>
          /\ pc' = "sleeping" /\ sleepLeft' = intervalMs
          /\ pollOutcome' = "none" /\ statusCalls' = statusCalls]_vars
  /\ [][pc = "sleeping" /\ pc' # "sleeping" => sleepLeft = 0 /\ pc' = "pollHead"]_vars

\* a job that answered no status, then an empty one, and timed out
C28_Witness ==
  /\ pc = "done" /\ nonTerm = 2 /\ statusCalls = 2 /\ lastKind = "nonterminal"
  /\ pollOutcome = "timedOut"

\* C29 as stated: after a terminal success without a view URL the operation
\* returns url null with error null and the handler reports "Unknown error.".
C29_Original ==
  pc = "done" /\ lastKind = "success" /\ ~Truthy(termView) =>
    /\ result.url = Null /\ result.error = NullErr
    /\ toolResponse.content[1].text =
         <<"Failed to generate presentation using Gamma API. Error:", "Unknown error.">>

\* C29 (amended): after a terminal success without a view URL, unless the
\* download step raises, the operation returns url null with error null and
\* the handler reports the failure message with "Unknown error.", also when the
\* exported file was downloaded and written (filePath is its path); when the
\* download step raises, the result is the error-only result and the handler
\* reports that error.
C29_Amended ==
  /\ pc = "done" /\ lastKind = "success" /\ ~Truthy(termView) /\ raisedAt # "download" =>
       /\ result.url = Null /\ result.error = NullErr
       /\ toolResponse.content[1].text =
            <<"Failed to generate presentation using Gamma API. Error:", "Unknown error.">>
       /\ dlKind = "ok" => result.filePath = targetPath /\ targetPath \in disk
  /\ pc = "done" /\ lastKind = "success" /\ ~Truthy(termView) /\ raisedAt = "download" =>
       /\ result.url = Null /\ result.filePath = NullPath
       /\ result.error \notin {NullErr, <<>>}
       /\ toolResponse.content[1].text =
            <<"Failed to generate presentation using Gamma API. Error:">> \o result.error

\* the file was written, the answer had no view link, the handler says failure
C29_Witness ==
  /\ pc = "done" /\ lastKind = "success" /\ ~Truthy(termView)
  /\ dlKind = "ok" /\ result.filePath = targetPath /\ targetPath \in disk
  /\ toolResponse.content[1].text[2] = "Unknown error."

\* --------------------------------------------------- claims on the startup
\* no key is configured by any means
NoKeyGiven == ~Truthy(cli.env) /\ ~Truthy(FlagValue) /\ GivenNames = {}

NamesOf(h) == {h[i][1] : i \in DOMAIN h}

\* C30: the creation call and every status call carry the composed auth
\* headers (the same set, with an X-API-KEY whenever a key is configured), and
\* the download GET carries no X-API-KEY and no Authorization header, whatever
\* the key and the header overrides are.
C30_KeyNotForwarded ==
  cli.phase = "parsed" =>
    /\ cli.statusHeaders # NotSent => cli.statusHeaders = cli.submitHeaders
    /\ cli.submitHeaders # NotSent /\ (Truthy(cli.env) \/ Truthy(FlagValue)) =>
         KeyValuesOf(cli.submitHeaders) # {}
    /\ cli.submitHeaders # NotSent =>
         \A n \in GivenNames : n \in NamesOf(cli.submitHeaders)
    /\ cli.downloadHeaders # NotSent =>
         NamesOf(cli.downloadHeaders) \cap (AuthNames \cup KeyNames) = {}

\* a key and an Authorization override are configured and sent to the API; the
\* download request has been built
C30_Witness ==
  /\ cli.phase = "parsed" /\ cli.downloadHeaders # NotSent
  /\ FlagValue = "K" /\ "Authorization" \in GivenNames
  /\ {"X-API-KEY", "Authorization"} \subseteq NamesOf(cli.submitHeaders)
  /\ NamesOf(cli.downloadHeaders) = {}

\* ------------------------------------------ claims on concurrent invocations
\* what is known of invocation i, running or suspended
Invocation(i) == IF self = i THEN Locals ELSE parked

\* the result of an invocation run by itself, from the answers it received
ResultAlone(i, v) ==
  IF v.initKind = "http"
    THEN [url |-> Null, filePath |-> NullPath,
          error |-> <<"Gamma v0.2 init failed:", "500", "">>]
  ELSE IF v.lastKind = "http"
    THEN [url |-> Null, filePath |-> NullPath,
          error |-> <<"Gamma v0.2 poll failed:", "500", "">>]
  ELSE IF v.lastKind = "success"
    THEN [url |-> JobView(JobOf(i)),
          filePath |-> IF v.dlKind = "ok"
                         THEN <<"output", "gamma-generation-", JobOf(i),
                                IF i = 1 THEN ".pdf" ELSE ".pptx">>
                         ELSE NullPath,
          error |-> NullErr]
  ELSE [url |-> Null, filePath |-> NullPath,
        error |-> <<"Gamma v0.2 generation timed out while waiting for result">>]

\* C24: invocations interleaved at their suspension points keep independent
\* job state: every status call of an invocation targets the generation id its
\* own submission returned, its download is stored under its own id, and its
\* result is the one it produces when run alone against the same answers.
C24_Independent ==
  \A i \in {1, 2} :
    LET v == Invocation(i)
    IN  /\ v.statusCalls > 0 => v.target = JobOf(i)
        /\ v.initKind = "ok" => v.generationId = JobOf(i)
        /\ v.dlKind = "ok" => v.targetPath[3] = JobOf(i) /\ v.targetPath \in disk
        /\ v.pc = "done" => v.result = ResultAlone(i, v)
        /\ v.initCalls <= 1 /\ v.downloadCalls <= 1

\* both invocations polled twice and slept through the same tick, so they
\* overlapped; each got its own link and stored its own file
C24_Witness ==
  /\ pc = "done" /\ parked.pc = "done" /\ now = 1
  /\ statusCalls = 2 /\ parked.statusCalls = 2
  /\ Invocation(1).result.url = "https://gamma.app/docs/G"
  /\ Invocation(2).result.url = "https://gamma.app/U"
  /\ disk = { <<"output", "gamma-generation-", "g1", ".pdf">>,
              <<"output", "gamma-generation-", "g2", ".pptx">> }

====
